---- MODULE Spec2Model ----
(***************************************************************************)
(* The asynchronous job submission / status / cancellation protocol of the *)
(* FastAPI + Celery template: the API handlers of                          *)
(* app/celery_tasks/router.py, the four job bodies of app/items/tasks.py   *)
(* and app/files/tasks.py, and the broker, result backend and worker pool  *)
(* they run against as configured in app/core/celery.py (Redis broker and  *)
(* backend, early acknowledgement, task_track_started, 30 min time limit,  *)
(* 1 h result expiry).                                                     *)
(***************************************************************************)
EXTENDS Integers, Sequences, FiniteSets, TLC

\* ------------------------------------------------------------- bounds
\* Number of identifiers handed out when only submission is explored.
MaxJobs == 2
\* Longest list handed to the bulk import when a job runs undisturbed.
MaxItems == 3
\* Number of jobs submitted when the whole system is explored.
MaxLive == 1
\* Length of the bulk import's list when the whole system is explored.
LiveItems == 2

\* ---------------------------------------------------------- constants
Workers == {"w1", "w2"}
Jobs == 1 .. MaxJobs
\* An identifier no submission ever returned.
ForeignId == MaxJobs + 1
Ids == Jobs \cup {ForeignId}

\* app/core/celery.py
task_track_started == TRUE
task_time_limit == 30 * 60
result_expires == 60 * 60

\* ------------------------------------------------------ request schemas
\* A request body is the mapping of the fields the client sent; a field the
\* client left out is absent from its domain.
Field(request, name, default) ==
    IF name \in DOMAIN request THEN request[name] ELSE default

ItemsOfLen(n) == [k \in 1 .. n |-> [name |-> k]]

ProcessItemRequest ==
    {[item_id |-> 1], [item_id |-> 1, operation |-> "sync"],
     [item_id |-> 2, operation |-> "frobnicate"]}
BulkImportRequest ==
    {[items |-> ItemsOfLen(n)] : n \in 0 .. MaxItems}
ProcessFileRequest ==
    {[filename |-> "doc.pdf"], [filename |-> "doc.pdf", operation |-> "convert"],
     [filename |-> "a.bin", operation |-> "shred"]}
CleanupFilesRequest ==
    {[max_age_days |-> 7], [dummy \in {} |-> 0]}

\* --------------------------------------------------------- job records
None == [t |-> "None"]
\* What the backend answers for a key it does not hold.
PendingMeta == [status |-> "PENDING", result |-> None]
Missing == [status |-> "<missing>", result |-> None]

READY_STATES == {"SUCCESS", "FAILURE", "REVOKED"}

\* An exception as the backend stores it: its type name and the renderings
\* of its arguments.
ExceptionValue(type, args) == [t |-> "exc", type |-> type, args |-> args]

\* The faults a job body can raise: one with a message, and one the
\* interpreter raises with no argument.
Faults ==
    {ExceptionValue("Exception", <<"Task failed">>), ExceptionValue("MemoryError", <<>>)}

\* str(exc): no argument renders as the empty string, one argument as that
\* argument; the time limit error renders its class name and arguments.
str(x) ==
    IF x.t = "exc"
    THEN IF x.type = "TimeLimitExceeded"
         THEN "TimeLimitExceeded(" \o x.args[1] \o ",)"
         ELSE IF Len(x.args) = 0 THEN "" ELSE x.args[1]
    ELSE "<" \o x.t \o ">"

\* ------------------------------------------------- binary floating point
\* A positive double is (1 + sig[1]/B + sig[2]/B^2 + sig[3]/B^3 + sig[4]/B^4)
\* * 2^exp with B = 2^13: the 52 fraction bits of the IEEE 754 binary64
\* format below the leading 1, in four limbs of 13 bits.
LimbBits == 13
Limbs == 4
Base == 2 ^ LimbBits

RECURSIVE DivLimbs(_, _, _)
DivLimbs(r, y, k) ==
    IF k = 0 THEN [digits |-> <<>>, rem |-> r]
    ELSE LET n == r * Base
             rest == DivLimbs(n % y, y, k - 1)
         IN [digits |-> <<n \div y>> \o rest.digits, rem |-> rest.rem]

RECURSIVE IncLimbs(_, _)
IncLimbs(s, k) ==
    IF k = 0 THEN [digits |-> <<>>, carry |-> 1]
    ELSE IF s[k] < Base - 1
         THEN [digits |-> SubSeq(s, 1, k - 1) \o <<s[k] + 1>>, carry |-> 0]
         ELSE LET r == IncLimbs(s, k - 1)
              IN [digits |-> r.digits \o <<0>>, carry |-> r.carry]

\* The next double above f.
NextFloat(f) ==
    LET r == IncLimbs(f.sig, Limbs)
    IN [sig |-> r.digits, exp |-> f.exp + r.carry]

\* Round to nearest, ties to even.
RoundFloat(f, guard, sticky) ==
    IF guard = 1 /\ (sticky = 1 \/ f.sig[Limbs] % 2 = 1) THEN NextFloat(f) ELSE f

RECURSIVE Log2Floor(_, _)
Log2Floor(a, b) == IF a >= 2 * b THEN 1 + Log2Floor(a, 2 * b) ELSE 0
RECURSIVE Log2Ceil(_, _)
Log2Ceil(a, b) == IF a < b THEN 1 + Log2Ceil(2 * a, b) ELSE 0

\* a / b of two positive integers (Python's true division of ints: the
\* correctly rounded quotient).
truediv(a, b) ==
    LET up == Log2Floor(a, b)
        down == Log2Ceil(a, b)
        x == a * 2 ^ down
        y == b * 2 ^ up
        d == DivLimbs(x - y, y, Limbs)
        guard == IF 2 * d.rem >= y THEN 1 ELSE 0
        sticky == IF 2 * d.rem - guard * y > 0 THEN 1 ELSE 0
    IN RoundFloat([sig |-> d.digits, exp |-> up - down], guard, sticky)

RECURSIVE MulLimbs(_, _, _)
MulLimbs(s, k, n) ==
    IF n = Limbs + 1 THEN [digits |-> <<>>, carry |-> 0]
    ELSE LET low == MulLimbs(s, k, n + 1)
             d == s[n] * k + low.carry
         IN [digits |-> <<d % Base>> \o low.digits, carry |-> d \div Base]

\* f * k for a double f and a positive integer k < 2^13 (k is exactly a double):
\* the exact product, rounded.
float_mul(f, k) ==
    LET m == MulLimbs(f.sig, k, 1)
        full == <<k + m.carry>> \o m.digits
        shift == Log2Floor(full[1], 1)
        cut == 2 ^ shift
        new == [j \in 1 .. Limbs + 1 |->
                   (full[j] \div cut)
                   + (IF j > 1 THEN (full[j - 1] % cut) * (Base \div cut) ELSE 0)]
        dropped == full[Limbs + 1] % cut
        guard == IF shift >= 1 THEN (dropped * 2) \div cut ELSE 0
        sticky == IF shift >= 1 /\ (dropped * 2) % cut > 0 THEN 1 ELSE 0
    IN RoundFloat([sig |-> SubSeq(new, 2, Limbs + 1), exp |-> f.exp + shift],
                  guard, sticky)

\* app/items/tasks.py: progress = ((i + 1) / total) * 100, for iteration i of
\* every batch of total items.
progress ==
    [total \in 1 .. MaxItems |->
        [i \in 0 .. total - 1 |-> float_mul(truediv(i + 1, total), 100)]]

\* The progress bulk_import reports in iteration i of total.
ProgressPercent(i, total) == progress[total][i]

\* ------------------------------------------------------------ job bodies
Dict(fields) == [t |-> "dict", d |-> fields]

\* A return value that names the default operation whatever was asked.
process_item_ignores_operation(task_id, args) ==
    Dict([task_id |-> task_id, item_id |-> args.item_id,
          operation |-> "validate", status |-> "completed"])

\* app/items/tasks.py: process_item's return value; operation takes the
\* signature's default when the caller passes none.
process_item(task_id, args) ==
    Dict([task_id |-> task_id, item_id |-> args.item_id,
          operation |-> Field(args, "operation", "validate"),
          status |-> "completed"])

\* A progress meta that counts the elements from zero.
bulk_import_progress_from_zero(i, total) ==
    Dict([current |-> i, total |-> total, percent |-> ProgressPercent(i, total)])

\* app/items/tasks.py: the meta of bulk_import's update_state in iteration i.
bulk_import_progress(i, total) ==
    Dict([current |-> i + 1, total |-> total, percent |-> ProgressPercent(i, total)])

\* A return value that reports nothing processed.
bulk_import_result_unprocessed(task_id, total, processed) ==
    Dict([task_id |-> task_id, status |-> "completed",
          total_items |-> total, processed |-> 0])

\* app/items/tasks.py: bulk_import's return value.
bulk_import_result(task_id, total, processed) ==
    Dict([task_id |-> task_id, status |-> "completed",
          total_items |-> total, processed |-> processed])

\* app/files/tasks.py: process_file's return value; operation takes the
\* signature's default when the caller passes none.
process_file(task_id, args) ==
    Dict([task_id |-> task_id, filename |-> args.filename,
          operation |-> Field(args, "operation", "analyze"),
          status |-> "completed"])

\* app/files/tasks.py: cleanup_old_files' return value.
cleanup_old_files(task_id, args) ==
    Dict([task_id |-> task_id, status |-> "completed",
          max_age_days |-> args.max_age_days, deleted_count |-> 0])

\* ------------------------------------------------------------------ state
VARIABLES
    nextId,     \* the next identifier delay() hands out
    msgs,       \* the message published for each identifier
    queue,      \* identifiers whose message waits in the broker queue
    unacked,    \* <<worker, id>>: delivered, not yet acknowledged
    store,      \* the result backend: identifier -> meta, or Missing
    alive,      \* which workers are running
    revoked,    \* each worker's in-memory set of revoked identifiers
    inbox,      \* each worker's revoke commands received, not yet handled
    req,        \* each worker's requests: reserved, executing, ...
    sub,        \* the last submission: its request and its response
    qry,        \* the status request in progress, or its response
    rv,         \* the revoke request in progress, or its response
    delivered,  \* history: identifiers the broker has handed to a worker
    promised,   \* history: identifiers whose revoke was answered 200 while
                \* the job was PENDING and not yet delivered
    polled      \* the polling client's memory: the status it was last given
                \* for each identifier

vars ==
    <<nextId, msgs, queue, unacked, store, alive, revoked, inbox, req, sub, qry, rv,
      delivered, promised, polled>>

NoMsg == [task |-> "<none>"]
NoReq == [st |-> "none", i |-> 0, processed |-> 0, hist |-> <<>>]
NoSub == [endpoint |-> "<none>"]
NoPoll == "<none>"
\* reads, before and cmds are history: the metas a status request has read, the
\* state a handler started from, and the commands a revoke request broadcast.
IdleQry ==
    [pc |-> "idle", task_id |-> ForeignId, cached |-> FALSE, meta |-> PendingMeta,
     status |-> "", result |-> None, error |-> None, reads |-> <<>>]
IdleRv ==
    [pc |-> "idle", task_id |-> ForeignId, code |-> 0, body |-> None, cmds |-> <<>>,
     before |-> None]

\* The state after start-up, with the workers ws running.
Boot(ws) ==
    /\ nextId = 1
    /\ msgs = [j \in Jobs |-> NoMsg]
    /\ queue = {}
    /\ unacked = {}
    /\ store = [id \in Ids |-> Missing]
    /\ alive = [w \in Workers |-> w \in ws]
    /\ revoked = [w \in Workers |-> {}]
    /\ inbox = [w \in Workers |-> {}]
    /\ req = [w \in Workers |-> [j \in Jobs |-> NoReq]]
    /\ sub = NoSub
    /\ qry = IdleQry
    /\ rv = IdleRv
    /\ delivered = {}
    /\ promised = {}
    /\ polled = [id \in Ids |-> NoPoll]

\* Identifiers a client can name: those returned so far, and a foreign one.
Known == {id \in Ids : id < nextId \/ id = ForeignId}

\* ---------------------------------------------------------- submission
TaskResponse(task_id, status) == [task_id |-> task_id, status |-> status]

\* The default of the file endpoint used for the item endpoint.
ProcessItemArgsWrongDefault(request) ==
    [item_id |-> request.item_id, operation |-> Field(request, "operation", "analyze")]

ProcessItemArgs(request) ==
    [item_id |-> request.item_id, operation |-> Field(request, "operation", "validate")]
BulkImportArgs(request) == [items_data |-> request.items]
ProcessFileArgs(request) ==
    [filename |-> request.filename, operation |-> Field(request, "operation", "analyze")]
CleanupFilesArgs(request) ==
    [max_age_days |-> Field(request, "max_age_days", 30)]

\* The messages in the queue after publishing the one for task_id.
Publish(q, task_id) == q \cup {task_id}

\* Task.delay(*args): publishes one message under a fresh identifier and
\* returns at once; the backend is not written.
delay(task, args) ==
    /\ msgs' = [msgs EXCEPT ![nextId] = [task |-> task, args |-> args]]
    /\ queue' = Publish(queue, nextId)
    /\ nextId' = nextId + 1

\* The calls a producer other than the endpoints makes: by keyword, leaving
\* operation to the task's signature.
DirectCalls ==
    {[task |-> "items.process_item", args |-> [item_id |-> 5]],
     [task |-> "files.process_file", args |-> [filename |-> "doc.txt"]]}

\* process_item.delay(item_id=5), process_file.delay(filename="doc.txt").
delay_direct ==
    /\ \E c \in DirectCalls : delay(c.task, c.args)
    /\ UNCHANGED <<polled, delivered, promised, unacked, store, alive, revoked, inbox, req, sub, qry, rv>>

\* The handlers run one at a time (one server process, no await in a handler).
ApiIdle == qry.pc = "idle" /\ rv.pc = "idle" /\ sub.endpoint = NoSub.endpoint

Submitted(endpoint, request) ==
    /\ ApiIdle
    /\ sub' = [endpoint |-> endpoint, request |-> request,
               response |-> TaskResponse(nextId, "PENDING"),
               before |-> [issued |-> {i \in Jobs : msgs[i].task # NoMsg.task},
                           queue |-> queue, store |-> store]]
    /\ UNCHANGED <<polled, unacked, store, alive, revoked, inbox, req, qry, rv, delivered, promised>>

create_process_item_task(requests) ==
    \E request \in requests :
        /\ delay("items.process_item", ProcessItemArgs(request))
        /\ Submitted("items/process", request)

create_bulk_import_task(requests) ==
    \E request \in requests :
        /\ delay("items.bulk_import", BulkImportArgs(request))
        /\ Submitted("items/bulk-import", request)

create_process_file_task(requests) ==
    \E request \in requests :
        /\ delay("files.process_file", ProcessFileArgs(request))
        /\ Submitted("files/process", request)

create_cleanup_files_task(requests) ==
    \E request \in requests :
        /\ delay("files.cleanup_old_files", CleanupFilesArgs(request))
        /\ Submitted("files/cleanup", request)

\* ---------------------------------------------------- request validation
\* A request body as it arrives: JSON values, each with its JSON type.
Json(ty, v) == [ty |-> ty, v |-> v]
EmptyObject == Json("object", [n \in {} |-> 0])

Endpoints == {"items/process", "items/bulk-import", "files/process", "files/cleanup"}

\* The fields each request schema declares: a field without a default is
\* required.
Schema(endpoint) ==
    CASE endpoint = "items/process" ->
             {[name |-> "item_id", type |-> "int", required |-> TRUE],
              [name |-> "operation", type |-> "str", required |-> FALSE]}
      [] endpoint = "items/bulk-import" ->
             {[name |-> "items", type |-> "list[dict]", required |-> TRUE]}
      [] endpoint = "files/process" ->
             {[name |-> "filename", type |-> "str", required |-> TRUE],
              [name |-> "operation", type |-> "str", required |-> FALSE]}
      [] endpoint = "files/cleanup" ->
             {[name |-> "max_age_days", type |-> "int", required |-> FALSE]}

\* A check that lets every value through.
AcceptsAnything(type, j) == TRUE

\* The values a field of the given declared type takes without conversion.
Accepts(type, j) ==
    CASE type = "int" -> j.ty = "int"
      [] type = "str" -> j.ty = "str"
      [] type = "list[dict]" ->
             j.ty = "list" /\ \A k \in 1 .. Len(j.v) : j.v[k].ty = "object"

\* The body is an object, each required field is there, and each declared
\* field that is there has a value of its type.
Validates(endpoint, body) ==
    /\ body.ty = "object"
    /\ \A f \in Schema(endpoint) :
           IF f.name \in DOMAIN body.v
           THEN Accepts(f.type, body.v[f.name])
           ELSE ~f.required

\* The request object built from a valid body: the declared fields the body
\* holds, with their values.
Model(endpoint, body) ==
    LET names == {f.name : f \in Schema(endpoint)} \cap DOMAIN body.v
    IN [n \in names |->
           IF body.v[n].ty = "list"
           THEN [k \in 1 .. Len(body.v[n].v) |-> body.v[n].v[k].v]
           ELSE body.v[n].v]

\* The 422 answer to a body that fails validation: the handler is not called.
Rejected(endpoint, body) ==
    /\ ApiIdle
    /\ sub' = [endpoint |-> endpoint, request |-> body,
               response |-> [status_code |-> 422],
               before |-> [issued |-> {i \in Jobs : msgs[i].task # NoMsg.task},
                           queue |-> queue, store |-> store]]
    /\ UNCHANGED <<polled, delivered, promised, nextId, msgs, queue, unacked, store, alive, revoked, inbox, req, qry, rv>>

\* A POST to a submission endpoint: the body is validated against the schema
\* the handler declares, and the handler runs on the request object.
route(endpoint, body) ==
    IF Validates(endpoint, body)
    THEN CASE endpoint = "items/process" ->
                  create_process_item_task({Model(endpoint, body)})
           [] endpoint = "items/bulk-import" ->
                  create_bulk_import_task({Model(endpoint, body)})
           [] endpoint = "files/process" ->
                  create_process_file_task({Model(endpoint, body)})
           [] endpoint = "files/cleanup" ->
                  create_cleanup_files_task({Model(endpoint, body)})
    ELSE Rejected(endpoint, body)

\* Bodies of the declared shape, and bodies that are not: a required field
\* missing, a value of another type, a body that is no object.
WellFormedBodies(endpoint) ==
    CASE endpoint = "items/process" ->
             {Json("object", [item_id |-> Json("int", 1)]),
              Json("object", [item_id |-> Json("int", 1),
                              operation |-> Json("str", "sync")])}
      [] endpoint = "items/bulk-import" ->
             {Json("object",
                   [items |-> Json("list", [k \in 1 .. n |->
                                               Json("object", [name |-> k])])]) :
                  n \in 0 .. 1}
      [] endpoint = "files/process" ->
             {Json("object", [filename |-> Json("str", "doc.pdf")])}
      [] endpoint = "files/cleanup" ->
             {EmptyObject, Json("object", [max_age_days |-> Json("int", 7)])}

MalformedBodies(endpoint) ==
    CASE endpoint = "items/process" ->
             {EmptyObject,
              Json("object", [operation |-> Json("str", "sync")]),
              Json("object", [item_id |-> Json("str", "abc")]),
              Json("object", [item_id |-> Json("int", 1),
                              operation |-> Json("list", <<>>)])}
      [] endpoint = "items/bulk-import" ->
             {EmptyObject,
              Json("object", [items |-> Json("str", "abc")]),
              Json("object", [items |-> Json("list", <<Json("int", 1)>>)]),
              Json("list", <<>>)}
      [] endpoint = "files/process" ->
             {EmptyObject,
              Json("object", [filename |-> Json("list", <<>>)]),
              Json("object", [operation |-> Json("str", "scan")])}
      [] endpoint = "files/cleanup" ->
             {Json("object", [max_age_days |-> Json("str", "soon")]),
              Json("list", <<>>)}

\* -------------------------------------------------------------- backend
Meta(status, result) == [status |-> status, result |-> result]

\* A backend that keeps the first progress record of a job.
store_result_keeps_progress(task_id, meta) ==
    IF \/ store[task_id].status = "SUCCESS"
       \/ store[task_id].status = "PROGRESS" /\ meta.status = "PROGRESS"
    THEN store
    ELSE [store EXCEPT ![task_id] = meta]

\* The key-value backend stores a record for task_id, except over a SUCCESS
\* record, which it keeps.
store_result(task_id, meta) ==
    IF store[task_id].status = "SUCCESS"
    THEN store
    ELSE [store EXCEPT ![task_id] = meta]

\* backend.get_task_meta: a key the backend does not hold reads as PENDING.
get_task_meta(task_id) ==
    IF store[task_id].status = Missing.status THEN PendingMeta ELSE store[task_id]

\* A readiness test that knows only of success.
ReadyOnlySuccess(meta) == meta.status = "SUCCESS"

Ready(meta) == meta.status \in READY_STATES

\* Who is executing: the requests a worker has accepted and not yet closed.
Active(w, j) == req[w][j].st \in {"accepted", "running", "written"}
Executing(j) == \E w \in Workers : req[w][j].st \in {"accepted", "running"}

\* ---------------------------------------------------------------- workers
\* A worker takes a message from the queue; it stays unacknowledged.
Reserve(w, j) ==
    /\ alive[w]
    /\ j \in queue
    /\ req[w][j].st = "none"
    /\ queue' = queue \ {j}
    /\ unacked' = unacked \cup {<<w, j>>}
    /\ req' = [req EXCEPT ![w][j] = [NoReq EXCEPT !.st = "reserved"]]
    /\ delivered' = delivered \cup {j}
    /\ UNCHANGED <<polled, promised, nextId, msgs, store, alive, revoked, inbox, sub, qry, rv>>

\* The worker hands a reserved request to its pool: a revoked identifier is
\* discarded and recorded REVOKED; otherwise the message is acknowledged
\* (acks_late is off) and the pool process accepts it.
Start(w, j) ==
    /\ alive[w]
    /\ req[w][j].st = "reserved"
    /\ unacked' = unacked \ {<<w, j>>}
    /\ IF j \in revoked[w]
       THEN /\ store' = store_result(j,
                   Meta("REVOKED", ExceptionValue("TaskRevokedError", <<"revoked">>)))
            /\ req' = [req EXCEPT ![w][j] = NoReq]
       ELSE /\ store' = store
            /\ req' = [req EXCEPT ![w][j].st = "accepted"]
    /\ UNCHANGED <<polled, delivered, promised, nextId, msgs, queue, alive, revoked, inbox, sub, qry, rv>>

\* task_track_started: the pool process records STARTED before the body runs.
TrackStarted(w, j) ==
    /\ req[w][j].st = "accepted"
    /\ store' = IF task_track_started
                THEN store_result(j, Meta("STARTED", Dict([hostname |-> w])))
                ELSE store
    /\ req' = [req EXCEPT ![w][j].st = "running"]
    /\ UNCHANGED <<polled, delivered, promised, nextId, msgs, queue, unacked, alive, revoked, inbox, sub, qry, rv>>

\* A loop that starts over when it reaches the last element.
bulk_import_loop_restarts(w, j) ==
    LET r == req[w][j]
        total == Len(msgs[j].args.items_data)
        meta == bulk_import_progress(r.i, total)
    IN /\ r.st = "running"
       /\ msgs[j].task = "items.bulk_import"
       /\ r.i < total
       /\ store' = store_result(j, Meta("PROGRESS", meta))
       /\ req' = [req EXCEPT ![w][j] = [r EXCEPT !.i = (r.i + 1) % total]]
       /\ UNCHANGED <<polled, delivered, promised, nextId, msgs, queue, unacked, alive, revoked, inbox, sub, qry, rv>>

\* One iteration of bulk_import's loop: processed += 1, then update_state.
bulk_import_loop(w, j) ==
    LET r == req[w][j]
        total == Len(msgs[j].args.items_data)
        meta == bulk_import_progress(r.i, total)
    IN /\ r.st = "running"
       /\ msgs[j].task = "items.bulk_import"
       /\ r.i < total
       /\ store' = store_result(j, Meta("PROGRESS", meta))
       /\ req' = [req EXCEPT ![w][j] =
                     [r EXCEPT !.i = r.i + 1, !.processed = r.processed + 1,
                               !.hist = Append(r.hist, meta)]]
       /\ UNCHANGED <<polled, delivered, promised, nextId, msgs, queue, unacked, alive, revoked, inbox, sub, qry, rv>>

\* The value the body of j returns, given the locals of its execution.
ReturnValue(j, r) ==
    LET m == msgs[j]
    IN CASE m.task = "items.process_item" -> process_item(j, m.args)
         [] m.task = "items.bulk_import" ->
                bulk_import_result(j, Len(m.args.items_data), r.processed)
         [] m.task = "files.process_file" -> process_file(j, m.args)
         [] m.task = "files.cleanup_old_files" -> cleanup_old_files(j, m.args)

\* The body returns and the pool process records SUCCESS with its value.
Return(w, j) ==
    LET r == req[w][j]
    IN /\ r.st = "running"
       /\ msgs[j].task = "items.bulk_import" => r.i = Len(msgs[j].args.items_data)
       /\ store' = store_result(j, Meta("SUCCESS", ReturnValue(j, r)))
       /\ req' = [req EXCEPT ![w][j].st = "written"]
       /\ UNCHANGED <<polled, delivered, promised, nextId, msgs, queue, unacked, alive, revoked, inbox, sub, qry, rv>>

\* The body raises and the pool process records FAILURE with the exception.
Raise(w, j) ==
    \E exc \in Faults :
        /\ req[w][j].st = "running"
        /\ store' = store_result(j, Meta("FAILURE", exc))
        /\ req' = [req EXCEPT ![w][j].st = "written"]
        /\ UNCHANGED <<polled, delivered, promised, nextId, msgs, queue, unacked, alive, revoked, inbox, sub, qry, rv>>

\* The worker learns from its pool that the job is over and closes the request.
Close(w, j) ==
    /\ req[w][j].st = "written"
    /\ req' = [req EXCEPT ![w][j] = NoReq]
    /\ UNCHANGED <<polled, delivered, promised, nextId, msgs, queue, unacked, store, alive, revoked, inbox, sub, qry, rv>>

\* The worker handles a revoke command: the identifier joins its revoked set,
\* and with terminate set, a request it holds as executing is killed and
\* recorded REVOKED (if its pool can terminate a job).
HandleRevoke(w, cmd) ==
    \E can_terminate \in BOOLEAN :
        /\ alive[w]
        /\ cmd \in inbox[w]
        /\ inbox' = [inbox EXCEPT ![w] = inbox[w] \ {cmd}]
        /\ revoked' = [revoked EXCEPT ![w] = revoked[w] \cup {cmd.task_id}]
        /\ IF cmd.terminate /\ can_terminate /\ cmd.task_id \in Jobs
              /\ Active(w, cmd.task_id)
           THEN /\ store' = store_result(cmd.task_id,
                       Meta("REVOKED", ExceptionValue("TaskRevokedError", <<"terminated">>)))
                /\ req' = [req EXCEPT ![w][cmd.task_id] = NoReq]
           ELSE UNCHANGED <<store, req>>
        /\ UNCHANGED <<polled, delivered, promised, nextId, msgs, queue, unacked, alive, sub, qry, rv>>

\* task_time_limit: the worker kills a job that runs too long and records
\* FAILURE with the time limit error.
TimeLimit(w, j) ==
    /\ Active(w, j)
    /\ store' = store_result(j,
           Meta("FAILURE", ExceptionValue("TimeLimitExceeded", <<ToString(task_time_limit)>>)))
    /\ req' = [req EXCEPT ![w][j] = NoReq]
    /\ UNCHANGED <<polled, delivered, promised, nextId, msgs, queue, unacked, alive, revoked, inbox, sub, qry, rv>>

\* The worker process dies with everything it held in memory.
Crash(w) ==
    /\ alive[w]
    /\ alive' = [alive EXCEPT ![w] = FALSE]
    /\ req' = [req EXCEPT ![w] = [j \in Jobs |-> NoReq]]
    /\ revoked' = [revoked EXCEPT ![w] = {}]
    /\ inbox' = [inbox EXCEPT ![w] = {}]
    /\ UNCHANGED <<polled, delivered, promised, nextId, msgs, queue, unacked, store, sub, qry, rv>>

\* A worker starts and takes over the revoked sets of the workers running.
Join(w) ==
    /\ ~alive[w]
    /\ alive' = [alive EXCEPT ![w] = TRUE]
    /\ revoked' = [revoked EXCEPT
           ![w] = UNION {revoked[v] : v \in {u \in Workers : alive[u]}}]
    /\ UNCHANGED <<polled, delivered, promised, nextId, msgs, queue, unacked, store, inbox, req, sub, qry, rv>>

\* The broker puts an unacknowledged message back in the queue: its worker
\* died, or held it for longer than the visibility timeout.
Restore(w, j) ==
    /\ <<w, j>> \in unacked
    /\ unacked' = unacked \ {<<w, j>>}
    /\ queue' = queue \cup {j}
    /\ UNCHANGED <<polled, delivered, promised, nextId, msgs, store, alive, revoked, inbox, req, sub, qry, rv>>

\* result_expires: the backend drops a record an hour after its last write;
\* a job cannot run that long (task_time_limit).
Expire(j) ==
    /\ store[j].status # Missing.status
    /\ task_time_limit < result_expires => ~Executing(j)
    /\ store' = [store EXCEPT ![j] = Missing]
    /\ UNCHANGED <<polled, delivered, promised, nextId, msgs, queue, unacked, alive, revoked, inbox, req, sub, qry, rv>>

\* ------------------------------------------------------- status endpoint
Str(x) == [t |-> "str", s |-> x]

\* AsyncResult._get_task_meta: the cached meta if there is one, else a read
\* of the backend; a meta in a ready state is cached.
ReadMeta(q) == IF q.cached THEN q.meta ELSE get_task_meta(q.task_id)
Cache(q, m) ==
    LET r == [q EXCEPT !.reads = Append(q.reads, m)]
    IN IF Ready(m) THEN [r EXCEPT !.cached = TRUE, !.meta = m] ELSE r

\* The response fields set once the result is ready (router.py 119-123).
ReadyFields(q, m) ==
    IF m.status = "SUCCESS"
    THEN [q EXCEPT !.result = m.result]
    ELSE [q EXCEPT !.error = Str(str(m.result))]

\* A status request that creates a PENDING record for what it looks up.
get_task_status_begin_writes(task_id) ==
    /\ ApiIdle
    /\ task_id \in Known
    /\ LET q == [IdleQry EXCEPT !.task_id = task_id]
           m == ReadMeta(q)
       IN qry' = [Cache(q, m) EXCEPT !.pc = "ready", !.status = m.status]
    /\ store' = IF store[task_id].status = Missing.status
                 THEN [store EXCEPT ![task_id] = PendingMeta]
                 ELSE store
    /\ UNCHANGED <<polled, delivered, promised, nextId, msgs, queue, unacked, alive, revoked, inbox, req, sub, rv>>

\* TaskStatusResponse(task_id=task_id, status=result.status)
get_task_status_begin(task_id) ==
    /\ ApiIdle
    /\ task_id \in Known
    /\ LET q == [IdleQry EXCEPT !.task_id = task_id]
           m == ReadMeta(q)
       IN qry' = [Cache(q, m) EXCEPT !.pc = "ready", !.status = m.status]
    /\ UNCHANGED <<polled, delivered, promised, nextId, msgs, queue, unacked, store, alive, revoked, inbox, req, sub, rv>>

\* if result.ready(): successful() and result.result read the cached meta.
get_task_status_ready ==
    /\ qry.pc = "ready"
    /\ LET m == ReadMeta(qry)
       IN qry' = IF Ready(m)
                 THEN [ReadyFields(Cache(qry, m), m) EXCEPT !.pc = "done"]
                 ELSE [Cache(qry, m) EXCEPT !.pc = "elif"]
    /\ UNCHANGED <<polled, delivered, promised, nextId, msgs, queue, unacked, store, alive, revoked, inbox, req, sub, rv>>

\* elif result.status == "PROGRESS":
get_task_status_elif ==
    /\ qry.pc = "elif"
    /\ LET m == ReadMeta(qry)
       IN qry' = [Cache(qry, m) EXCEPT
                     !.pc = IF m.status = "PROGRESS" THEN "info" ELSE "done"]
    /\ UNCHANGED <<polled, delivered, promised, nextId, msgs, queue, unacked, store, alive, revoked, inbox, req, sub, rv>>

\* response.result = result.info
get_task_status_info ==
    /\ qry.pc = "info"
    /\ LET m == ReadMeta(qry)
       IN qry' = [Cache(qry, m) EXCEPT !.pc = "done", !.result = m.result]
    /\ UNCHANGED <<polled, delivered, promised, nextId, msgs, queue, unacked, store, alive, revoked, inbox, req, sub, rv>>

\* ------------------------------------------------------- revoke endpoint
\* A revoke that does not ask for termination.
RevokeCommandNoTerminate(task_id) == [task_id |-> task_id, terminate |-> FALSE]

RevokeCommand(task_id) == [task_id |-> task_id, terminate |-> TRUE]

\* control.revoke: the command reaches the workers running now.
Broadcast(boxes, cmd) ==
    [w \in Workers |-> IF alive[w] THEN boxes[w] \cup {cmd} ELSE boxes[w]]

\* if result.ready(): raise HTTPException(400, "Task already completed")
revoke_task_begin(task_id) ==
    /\ ApiIdle
    /\ task_id \in Known
    /\ LET r == [IdleRv EXCEPT !.task_id = task_id,
                                 !.before = [store |-> store, inbox |-> inbox,
                                             delivered |-> delivered]]
       IN rv' = IF Ready(get_task_meta(task_id))
                THEN [r EXCEPT !.pc = "done", !.code = 400,
                               !.body = Str("Task already completed")]
                ELSE [r EXCEPT !.pc = "revoke"]
    /\ UNCHANGED <<polled, delivered, promised, nextId, msgs, queue, unacked, store, alive, revoked, inbox, req, sub, qry>>

\* celery_app.control.revoke(task_id, terminate=True), then the 200 answer.
revoke_task_send ==
    /\ rv.pc = "revoke"
    /\ inbox' = Broadcast(inbox, RevokeCommand(rv.task_id))
    /\ rv' = [rv EXCEPT !.pc = "done", !.code = 200,
                        !.cmds = Append(rv.cmds, RevokeCommand(rv.task_id)),
                        !.body = Dict([task_id |-> rv.task_id, status |-> "revoked"])]
    /\ promised' = IF rv.task_id \in Jobs /\ rv.task_id \notin delivered
                       /\ get_task_meta(rv.task_id).status = "PENDING"
                    THEN promised \cup {rv.task_id} ELSE promised
    /\ UNCHANGED <<polled, delivered, nextId, msgs, queue, unacked, store, alive, revoked, req, sub, qry>>

\* ---------------------------------------------------------- specification
Commands == {RevokeCommand(id) : id \in Ids}

\* The response of a finished handler leaves the server.
Respond ==
    /\ qry' = IdleQry
    /\ rv' = IdleRv
    /\ sub' = NoSub
    /\ UNCHANGED <<polled, delivered, promised, nextId, msgs, queue, unacked, store, alive, revoked, inbox, req>>

\* The response of a status request reaches a client that keeps the status
\* it is given for each identifier it polls.
RespondPoll ==
    /\ polled' = IF qry.pc = "done"
                  THEN [polled EXCEPT ![qry.task_id] = qry.status]
                  ELSE polled
    /\ qry' = IdleQry
    /\ rv' = IdleRv
    /\ sub' = NoSub
    /\ UNCHANGED <<delivered, promised, nextId, msgs, queue, unacked, store, alive, revoked, inbox, req>>

Responding == qry.pc = "done" \/ rv.pc = "done" \/ sub.endpoint # NoSub.endpoint

\* The four submission endpoints, for the request bodies offered.
Submit(items, bulks, files, cleanups) ==
    \/ create_process_item_task(items)
    \/ create_bulk_import_task(bulks)
    \/ create_process_file_task(files)
    \/ create_cleanup_files_task(cleanups)

Status ==
    \/ \E id \in Ids : get_task_status_begin(id)
    \/ get_task_status_ready
    \/ get_task_status_elif
    \/ get_task_status_info

Revoke ==
    \/ \E id \in Jobs : revoke_task_begin(id)
    \/ revoke_task_send

\* A pool process runs a job from its message to its last write.
Run(w, j) ==
    \/ Reserve(w, j)
    \/ Start(w, j)
    \/ TrackStarted(w, j)
    \/ bulk_import_loop(w, j)
    \/ Return(w, j)
    \/ Raise(w, j)
    \/ Close(w, j)

\* The workers ws, the broker and the backend.
Pool(ws) ==
    \/ \E w \in ws, j \in Jobs : Run(w, j)
    \/ \E w \in ws, cmd \in Commands : HandleRevoke(w, cmd)
    \/ \E w \in ws, j \in Jobs : TimeLimit(w, j)
    \/ \E w \in ws : Crash(w)
    \/ \E w \in ws : Join(w)
    \/ \E w \in ws, j \in Jobs : Restore(w, j)
    \/ \E j \in Jobs : Expire(j)

Init == Boot({"w1"})

\* The API, one worker, the broker and the backend, for MaxLive jobs. A response is delivered before
\* anything else happens: delivering it changes nothing the other actions read.
Next ==
    \/ Responding /\ Respond
    \/ /\ ~Responding
       /\ \/ /\ nextId <= MaxLive
             /\ Submit({[item_id |-> 1]}, {[items |-> ItemsOfLen(LiveItems)]},
                       {[filename |-> "doc.pdf"]}, {[max_age_days |-> 7]})
          \/ Status
          \/ Revoke
          \/ Pool({"w1"})

Spec == Init /\ [][Next]_vars

\* Submission and status queries for MaxJobs jobs and every request body,
\* with one worker that takes jobs and starts them.
NextSubmit ==
    \/ Responding /\ Respond
    \/ /\ ~Responding
       /\ \/ /\ nextId <= MaxJobs
             /\ Submit(ProcessItemRequest, BulkImportRequest,
                       ProcessFileRequest, CleanupFilesRequest)
          \/ Status
          \/ \E j \in Jobs : Reserve("w1", j) \/ Start("w1", j) \/ TrackStarted("w1", j)

SpecSubmit == Init /\ [][NextSubmit]_vars

\* One worker running MaxLive jobs of every request body, undisturbed by
\* revocation, crashes and expiry.
NextBody ==
    \/ Responding /\ Respond
    \/ /\ ~Responding
       /\ \/ /\ nextId <= MaxLive
             /\ Submit(ProcessItemRequest, BulkImportRequest,
                       ProcessFileRequest, CleanupFilesRequest)
          \/ nextId <= MaxLive /\ delay_direct
          \/ \E j \in Jobs : Run("w1", j)
          \/ \E j \in Jobs : TimeLimit("w1", j)

SpecBody == Init /\ [][NextBody]_vars

\* A client polling the status of a bulk import while one worker executes
\* it, with a broker that delivers each message once.
NextPoll ==
    \/ Responding /\ Respond
    \/ /\ ~Responding
       /\ \/ nextId <= MaxLive /\ create_bulk_import_task(BulkImportRequest)
          \/ Status
          \/ \E j \in Jobs : Run("w1", j)
          \/ \E j \in Jobs : TimeLimit("w1", j)

SpecPoll == Init /\ [][NextPoll]_vars

\* A client revoking any identifier, submitted or not, with one worker
\* executing jobs and handling the broadcasts, and records expiring.
NextRevoke ==
    \/ Responding /\ Respond
    \/ /\ ~Responding
       /\ \/ /\ nextId <= MaxLive
             /\ Submit({[item_id |-> 1]}, {[items |-> ItemsOfLen(LiveItems)]},
                       {[filename |-> "doc.pdf"]}, {[max_age_days |-> 7]})
          \/ \E id \in Ids : revoke_task_begin(id)
          \/ revoke_task_send
          \/ \E j \in Jobs : Run("w1", j)
          \/ \E cmd \in Commands : HandleRevoke("w1", cmd)
          \/ \E j \in Jobs : Expire(j)

SpecRevoke == Init /\ [][NextRevoke]_vars

\* A client that polls the status of what it submitted and remembers the
\* answers, with one worker, the broker and the backend.
NextClient ==
    \/ Responding /\ RespondPoll
    \/ /\ ~Responding
       /\ \/ /\ nextId <= MaxLive
             /\ Submit({[item_id |-> 1]}, {[items |-> ItemsOfLen(LiveItems)]},
                       {[filename |-> "doc.pdf"]}, {[max_age_days |-> 7]})
          \/ Status
          \/ Pool({"w1"})

SpecClient == Init /\ [][NextClient]_vars

\* Clients posting well-formed and malformed bodies to the submission
\* endpoints, with one worker that takes jobs and starts them.
NextValidate ==
    \/ Responding /\ Respond
    \/ /\ ~Responding
       /\ \/ /\ nextId <= MaxJobs
             /\ \E endpoint \in Endpoints :
                    \E body \in WellFormedBodies(endpoint) \cup MalformedBodies(endpoint) :
                        route(endpoint, body)
          \/ \E j \in Jobs : Reserve("w1", j) \/ Start("w1", j) \/ TrackStarted("w1", j)

SpecValidate == Init /\ [][NextValidate]_vars

\* Two workers pulling from the shared queue, with crashes, restarts and the
\* broker restoring unacknowledged messages.
InitPool == Boot(Workers)

NextPool ==
    \/ Responding /\ Respond
    \/ /\ ~Responding
       /\ \/ /\ nextId <= MaxLive
             /\ Submit({[item_id |-> 1]}, {[items |-> ItemsOfLen(LiveItems)]},
                       {[filename |-> "doc.pdf"]}, {[max_age_days |-> 7]})
          \/ \E w \in Workers, j \in Jobs : Run(w, j)
          \/ \E w \in Workers, j \in Jobs : TimeLimit(w, j)
          \/ \E w \in Workers : Crash(w)
          \/ \E w \in Workers : Join(w)
          \/ \E w \in Workers, j \in Jobs : Restore(w, j)

SpecPool == InitPool /\ [][NextPool]_vars

\* One worker that keeps taking jobs and never crashes, for every request
\* body; clients may revoke, and the time limit and the expiry of records can
\* strike at any time. The worker is a process of its own: the requests the
\* API serves never hold it back, so a step it can take again and again is
\* eventually taken, and each response is eventually delivered.
NextFair ==
    \/ Responding /\ Respond
    \/ /\ ~Responding
       /\ \/ /\ nextId <= MaxLive
             /\ Submit(ProcessItemRequest, BulkImportRequest,
                       ProcessFileRequest, CleanupFilesRequest)
          \/ \E id \in Ids : revoke_task_begin(id)
          \/ revoke_task_send
          \/ \E j \in Jobs : Run("w1", j)
          \/ \E cmd \in Commands : HandleRevoke("w1", cmd)
          \/ \E j \in Jobs : TimeLimit("w1", j)
          \/ \E j \in Jobs : Expire(j)

SpecFair ==
    /\ Init
    /\ [][NextFair]_vars
    /\ WF_vars(Responding /\ Respond)
    /\ \A j \in Jobs : SF_vars(~Responding /\ Run("w1", j))

\* ================================================================ claims
Absent(x) == x.t = None.t

\* What each endpoint must publish for a request: the task's name and its
\* arguments, an omitted optional field replaced by its declared default.
Published(endpoint, rq) ==
    CASE endpoint = "items/process" ->
             [task |-> "items.process_item",
              args |-> [item_id |-> rq.item_id,
                        operation |-> IF "operation" \in DOMAIN rq
                                      THEN rq.operation ELSE "validate"]]
      [] endpoint = "items/bulk-import" ->
             [task |-> "items.bulk_import", args |-> [items_data |-> rq.items]]
      [] endpoint = "files/process" ->
             [task |-> "files.process_file",
              args |-> [filename |-> rq.filename,
                        operation |-> IF "operation" \in DOMAIN rq
                                      THEN rq.operation ELSE "analyze"]]
      [] endpoint = "files/cleanup" ->
             [task |-> "files.cleanup_old_files",
              args |-> [max_age_days |-> IF "max_age_days" \in DOMAIN rq
                                         THEN rq.max_age_days ELSE 30]]

\* C1: each submission endpoint answers a valid request with status PENDING
\* and an identifier no earlier submission returned, has published exactly one
\* message, for that identifier, carrying the request's arguments with the
\* declared defaults filled in, and has written no record (it waited for no
\* worker); and a status query for a submitted job that no worker has yet been
\* handed reports PENDING, with neither result nor error.
C1_SubmitPublishesOnePending ==
    /\ sub.endpoint # NoSub.endpoint =>
           LET id == sub.response.task_id
           IN /\ sub.response.status = "PENDING"
              /\ id \in Jobs
              /\ id \notin sub.before.issued
              /\ id \notin sub.before.queue
              /\ queue = sub.before.queue \cup {id}
              /\ msgs[id] = Published(sub.endpoint, sub.request)
              /\ \A i \in sub.before.issued : msgs[i].task # NoMsg.task
              /\ store = sub.before.store
    /\ (qry.pc = "done" /\ qry.task_id \in Jobs /\ qry.task_id \notin delivered)
           => qry.status = "PENDING" /\ Absent(qry.result) /\ Absent(qry.error)

\* C1 witness: the second job, submitted without its optional field, is
\* queried while it waits in the queue and the first job is already running.
C1_Witness ==
    /\ qry.pc = "done" /\ qry.task_id = 2 /\ qry.status = "PENDING"
    /\ 2 \in queue /\ 2 \notin delivered /\ 1 \in delivered
    /\ msgs[2].task = "items.process_item" /\ msgs[2].args.operation = "validate"

\* The reads of a status request all returned the same record state.
StableReads(q) ==
    \A k \in 1 .. Len(q.reads) :
        /\ q.reads[k].status = q.reads[1].status
        /\ q.reads[k].result = q.reads[1].result

\* C2 (as claimed): in a status response for a record in one of the six
\* states, result is set only with status SUCCESS (the return value) or
\* PROGRESS (the progress mapping), error is set only with status FAILURE, and
\* a PENDING, STARTED or REVOKED job is reported with neither.
C2_ResultAndErrorByStatus ==
    (qry.pc = "done" /\ StableReads(qry))
        => /\ ~Absent(qry.result)
                  => /\ qry.status \in {"SUCCESS", "PROGRESS"}
                     /\ qry.result = qry.reads[1].result
           /\ ~Absent(qry.error) => qry.status = "FAILURE"
           /\ qry.status \in {"PENDING", "STARTED", "REVOKED"}
                  => Absent(qry.result) /\ Absent(qry.error)

\* The status the backend reported for id in the state a revoke request began in.
StatusBefore(r) ==
    LET m == r.before.store[r.task_id]
    IN IF m.status = Missing.status THEN "PENDING" ELSE m.status

\* C3: a revoke request that finds the record SUCCESS, FAILURE or REVOKED
\* answers 400 "Task already completed", never goes on to broadcast, and
\* leaves the workers' inboxes and every record as they were.
C3_RevokeOfTerminalRejected ==
    (rv.pc # "idle" /\ StatusBefore(rv) \in {"SUCCESS", "FAILURE", "REVOKED"})
        => /\ rv.pc = "done"
           /\ rv.code = 400
           /\ rv.body = Str("Task already completed")
           /\ rv.cmds = <<>>
           /\ inbox = rv.before.inbox
           /\ store = rv.before.store

\* C3 witness: a revoke of a job already REVOKED is rejected.
C3_Witness ==
    rv.pc = "done" /\ rv.code = 400 /\ StatusBefore(rv) = "REVOKED"

\* C4: a revoke request that finds the record PENDING, STARTED or PROGRESS
\* never answers 400; it answers 200 with the identifier and status "revoked"
\* after exactly one broadcast, for that identifier with terminate set, which
\* is then in the inbox of every running worker.
C4_RevokeOfLiveBroadcastsOnce ==
    (rv.pc # "idle" /\ StatusBefore(rv) \in {"PENDING", "STARTED", "PROGRESS"})
        => /\ rv.code # 400
           /\ rv.pc = "revoke" => rv.cmds = <<>>
           /\ rv.pc = "done"
                  => /\ rv.code = 200
                     /\ rv.body = Dict([task_id |-> rv.task_id, status |-> "revoked"])
                     /\ rv.cmds = <<[task_id |-> rv.task_id, terminate |-> TRUE]>>
                     /\ \A w \in Workers :
                            alive[w] => [task_id |-> rv.task_id, terminate |-> TRUE]
                                            \in inbox[w]

\* C4 witness: a job that has published progress is revoked.
C4_Witness ==
    rv.pc = "done" /\ rv.code = 200 /\ StatusBefore(rv) = "PROGRESS" /\ alive["w1"]

\* The position of a status on the path PENDING, STARTED, PROGRESS, terminal.
Rank(status) ==
    CASE status \in {"PENDING", Missing.status} -> 0
      [] status = "STARTED" -> 1
      [] status = "PROGRESS" -> 2
      [] status \in {"SUCCESS", "FAILURE", "REVOKED"} -> 3

\* C5 (as claimed): in every step that leaves a record in the backend, the
\* record's status does not move back along PENDING, STARTED, PROGRESS,
\* terminal, and a SUCCESS, FAILURE or REVOKED record stays as it is.
C5_StatusOnlyMovesForward ==
    [][\A j \in Jobs :
           store'[j].status # Missing.status
               => /\ Rank(store'[j].status) >= Rank(store[j].status)
                  /\ Rank(store[j].status) = 3
                         => store'[j].status = store[j].status]_vars

\* C6 (as claimed): a job whose revoke was accepted while it was PENDING and
\* not yet delivered to any worker is never recorded STARTED.
C6_RevokedBeforeDeliveryNeverStarts ==
    \A j \in promised : store[j].status # "STARTED"

\* C7 (as claimed): a status response for an identifier that was never
\* submitted reports UNKNOWN, and so never PENDING.
C7_UnknownIdentifierReportedUnknown ==
    (qry.pc = "done" /\ qry.task_id \notin 1 .. (nextId - 1))
        => qry.status = "UNKNOWN"

\* C8 (as claimed): a status response for a record that a raising body left
\* FAILURE reports FAILURE with error the rendering of the fault, and that
\* rendering is not empty.
C8_FaultReportedWithNonEmptyError ==
    (qry.pc = "done" /\ StableReads(qry) /\ qry.reads[1].status = "FAILURE"
         /\ qry.reads[1].result \in Faults)
        => /\ qry.status = "FAILURE"
           /\ ~Absent(qry.error)
           /\ qry.error.s = str(qry.reads[1].result)
           /\ qry.error.s # ""

\* The executions of bulk_import in progress or just finished: worker, job.
BulkRuns ==
    {e \in Workers \X Jobs :
         /\ msgs[e[2]].task = "items.bulk_import"
         /\ req[e[1]][e[2]].st \in {"running", "written"}}

\* The progress updates execution e has published, and the length of its list.
Updates(e) == req[e[1]][e[2]].hist
Total(e) == Len(msgs[e[2]].args.items_data)

\* Execution e has run its body to the end and recorded its return value.
Completed(e) ==
    req[e[1]][e[2]].st = "written" /\ store[e[2]].status = "SUCCESS"

\* Two doubles are equal or next to each other.
WithinOneUlp(a, b) == a = b \/ NextFloat(a) = b \/ NextFloat(b) = a

\* current counts 1, 2, ... and total is the length of the list in each
\* update of e, and a completed execution of a non-empty list ended at
\* current = total.
CountsUp(e) ==
    /\ \A k \in 1 .. Len(Updates(e)) :
           Updates(e)[k].d.current = k /\ Updates(e)[k].d.total = Total(e)
    /\ (Completed(e) /\ Total(e) >= 1)
           => Updates(e)[Len(Updates(e))].d.current = Total(e)

\* C9 (as claimed): over the updates of one execution of bulk_import, current
\* counts 1, 2, ... up to N, total is N, and percent is the double
\* 100*current/total in every update.
C9_ProgressExactPercent ==
    \A e \in BulkRuns :
        /\ CountsUp(e)
        /\ \A k \in 1 .. Len(Updates(e)) :
               Updates(e)[k].d.percent = truediv(100 * k, Total(e))

\* C9 (amended): over the updates of one execution of bulk_import, current
\* counts 1, 2, ... up to N, total is N, percent is the double
\* 100*current/total or a double next to it, and it is exactly 100 when
\* current is N.
C9_ProgressPercentWithinRounding ==
    \A e \in BulkRuns :
        /\ CountsUp(e)
        /\ \A k \in 1 .. Len(Updates(e)) :
               /\ WithinOneUlp(Updates(e)[k].d.percent, truediv(100 * k, Total(e)))
               /\ k = Total(e) => Updates(e)[k].d.percent = truediv(100, 1)

\* C9 witness: a completed execution on three elements whose first percent
\* is not the double 100*1/3.
C9_Witness ==
    \E e \in BulkRuns :
        /\ Completed(e) /\ Total(e) = 3 /\ Len(Updates(e)) = 3
        /\ Updates(e)[1].d.percent # truediv(100, 3)
        /\ Updates(e)[3].d.percent = truediv(100, 1)

\* C10: an execution of bulk_import on N elements publishes at most N
\* updates, the k-th for element k, each recorded as the job's PROGRESS
\* record when published; when it completes it has published exactly N and
\* the record is SUCCESS with status "completed", total_items N and
\* processed N (no update and zeros for N = 0).
C10_BulkImportCompletes ==
    \A e \in BulkRuns :
        /\ Len(Updates(e)) <= Total(e)
        /\ \A k \in 1 .. Len(Updates(e)) : Updates(e)[k].d.current = k
        /\ (req[e[1]][e[2]].st = "running" /\ Len(Updates(e)) >= 1)
               => /\ store[e[2]].status = "PROGRESS"
                  /\ store[e[2]].result = Updates(e)[Len(Updates(e))]
        /\ (req[e[1]][e[2]].st = "written" /\ store[e[2]].status # "FAILURE")
               => /\ Len(Updates(e)) = Total(e)
                  /\ store[e[2]].status = "SUCCESS"
                  /\ store[e[2]].result =
                         Dict([task_id |-> e[2], status |-> "completed",
                               total_items |-> Total(e), processed |-> Total(e)])

\* C10 witness: an execution on the longest list has completed with its record.
C10_Witness ==
    \E e \in BulkRuns :
        /\ Completed(e) /\ Total(e) = MaxItems /\ Len(Updates(e)) = MaxItems
        /\ store[e[2]].result.d.processed = MaxItems

\* The executions of task that have run their body to the end: worker, job.
Returned(task) ==
    {e \in Workers \X Jobs :
         /\ msgs[e[2]].task = task
         /\ req[e[1]][e[2]].st = "written"
         /\ store[e[2]].status # "FAILURE"}

\* The operation a message asks for, or the given default when it names none.
OperationOf(m, default) ==
    IF "operation" \in DOMAIN m.args THEN m.args.operation ELSE default

\* C11: an execution of process_item that ran to the end has recorded SUCCESS
\* with its identifier, its item_id, its operation ("validate" when the call
\* gave none) and status "completed", whatever the operation string; and an
\* execution of process_file likewise with its filename and its operation
\* ("analyze" when the call gave none).
C11_SingleJobsEchoTheirInputs ==
    /\ \A e \in Returned("items.process_item") :
           /\ store[e[2]].status = "SUCCESS"
           /\ store[e[2]].result =
                  Dict([task_id |-> e[2], item_id |-> msgs[e[2]].args.item_id,
                        operation |-> OperationOf(msgs[e[2]], "validate"),
                        status |-> "completed"])
    /\ \A e \in Returned("files.process_file") :
           /\ store[e[2]].status = "SUCCESS"
           /\ store[e[2]].result =
                  Dict([task_id |-> e[2], filename |-> msgs[e[2]].args.filename,
                        operation |-> OperationOf(msgs[e[2]], "analyze"),
                        status |-> "completed"])

\* C11 witness: process_item has completed for an operation it does not know.
C11_Witness ==
    \E e \in Returned("items.process_item") :
        /\ msgs[e[2]].args.item_id = 2
        /\ store[e[2]].result.d.operation = "frobnicate"

\* C12: while an execution of bulk_import has published k >= 1 updates and
\* not yet the next one nor its outcome, the job's record is PROGRESS with
\* exactly the k-th mapping, and a status request all of whose reads fell in
\* that interval reports PROGRESS with result the k-th mapping and no error.
C12_PollSeesLatestProgress ==
    \A e \in BulkRuns :
        LET k == Len(Updates(e))
        IN (req[e[1]][e[2]].st = "running" /\ k >= 1)
               => /\ store[e[2]] = Meta("PROGRESS", Updates(e)[k])
                  /\ (/\ qry.pc = "done"
                      /\ qry.task_id = e[2]
                      /\ \A i \in 1 .. Len(qry.reads) :
                             /\ qry.reads[i].status = "PROGRESS"
                             /\ qry.reads[i].result = Updates(e)[k])
                         => /\ qry.status = "PROGRESS"
                            /\ qry.result = Updates(e)[k]
                            /\ Absent(qry.error)

\* C12 witness: a poll between the second and the third update of an
\* execution reports the second mapping.
C12_Witness ==
    /\ qry.pc = "done" /\ qry.status = "PROGRESS" /\ StableReads(qry)
    /\ \E e \in BulkRuns :
           /\ e[2] = qry.task_id /\ req[e[1]][e[2]].st = "running"
           /\ Total(e) = 3 /\ Len(Updates(e)) = 2
           /\ qry.result = Updates(e)[2]
           /\ qry.result # Updates(e)[1]

\* C13 (as claimed): no record stays STARTED or PROGRESS past the time limit:
\* a record in one of these states is that of an execution a running worker
\* holds, the only thing task_time_limit ends with a FAILURE record (the
\* record itself is kept for result_expires, which is longer).
C13_UnfinishedRecordsAreTimeLimited ==
    \A j \in Jobs :
        store[j].status \in {"STARTED", "PROGRESS"}
            => \E w \in Workers : alive[w] /\ Active(w, j) /\ ENABLED TimeLimit(w, j)

\* C14 (as claimed): a revoke request for an identifier that was never
\* submitted is not acknowledged with status "revoked" and sends no broadcast.
C14_RevokeOfUnknownIsNotAcknowledged ==
    (rv.pc = "done" /\ rv.task_id \notin 1 .. (nextId - 1))
        => /\ rv.body # Dict([task_id |-> rv.task_id, status |-> "revoked"])
           /\ rv.cmds = <<>>
           /\ inbox = rv.before.inbox

\* C15 (as claimed): a status response never reports an earlier state than
\* the response the client got before for the same identifier, and after a
\* response with SUCCESS, FAILURE or REVOKED every later one reports that state.
C15_PolledStatusNeverRegresses ==
    (qry.pc = "done" /\ polled[qry.task_id] # NoPoll)
        => /\ Rank(qry.status) >= Rank(polled[qry.task_id])
           /\ Rank(polled[qry.task_id]) = 3 => qry.status = polled[qry.task_id]

FromOneRecord(q, m) ==
    /\ q.status = m.status
    /\ q.result = IF m.status \in {"SUCCESS", "PROGRESS"} THEN m.result ELSE None
    /\ q.error = IF m.status \in {"FAILURE", "REVOKED"}
                 THEN Str(str(m.result)) ELSE None

\* C17 (as claimed): the status, result and error of a status response that
\* reports STARTED or PROGRESS all come from one of the record states the
\* request read; so it carries no return value and no error.
C17_StatusResponseIsOneSnapshot ==
    (qry.pc = "done" /\ qry.status \in {"STARTED", "PROGRESS"})
        => \E i \in 1 .. Len(qry.reads) : FromOneRecord(qry, qry.reads[i])

\* The revoke endpoint has answered 200 "revoked" for j: the response is
\* being delivered, or the broadcast it sent is still in a worker's inbox.
Acknowledged(j) ==
    \/ rv.pc = "done" /\ rv.code = 200 /\ rv.task_id = j
    \/ \E w \in Workers : [task_id |-> j, terminate |-> TRUE] \in inbox[w]

\* C18 (as claimed): a job whose revoke was answered 200 "revoked" is never
\* recorded SUCCESS.
C18_AcknowledgedRevokeNeverSucceeds ==
    \A j \in Jobs : Acknowledged(j) => store[j].status # "SUCCESS"

\* C19 (as claimed): when a worker dies while it executes a job, the broker
\* still holds the job's message, in the queue or unacknowledged, so that the
\* job can be delivered and executed again.
C19_CrashedJobStaysDeliverable ==
    [][\A w \in Workers, j \in Jobs :
           (alive[w] /\ ~alive'[w] /\ Active(w, j))
               => (j \in queue' \/ \E v \in Workers : <<v, j>> \in unacked')]_vars

\* C20: a step of a status request leaves the records, the queue, the
\* messages, the workers' revoked sets and inboxes and the workers' requests
\* as they are; and no step of an API handler changes a record.
C20_StatusQueryWritesNothing ==
    [][/\ (qry' # qry /\ qry'.pc # IdleQry.pc)
             => UNCHANGED <<store, queue, unacked, msgs, nextId, revoked, inbox,
                            alive, req>>
       /\ store' # store => UNCHANGED <<qry, rv, sub>>]_vars

\* C20 witness: a status request has reported a SUCCESS record, and the
\* record is as the request read it.
C20_Witness ==
    /\ qry.pc = "done" /\ qry.status = "SUCCESS" /\ Len(qry.reads) >= 2
    /\ store[qry.task_id] = qry.reads[1]

\* C21 (as claimed): at most one running worker is executing a given job.
C21_AtMostOneExecution ==
    \A j \in Jobs : Cardinality({w \in Workers : alive[w] /\ Active(w, j)}) <= 1

\* The job's record is in a terminal state.
Terminal(j) == store[j].status \in {"SUCCESS", "FAILURE", "REVOKED"}

\* C22: with a worker that keeps dequeuing and does not crash, every job whose
\* message is in the queue eventually has a SUCCESS, FAILURE or REVOKED
\* record, whatever its request body and whether or not it is revoked or
\* hits the time limit on the way.
C22_EveryJobTerminates ==
    \A j \in Jobs : (j \in queue) ~> Terminal(j)

\* C22 witness: a bulk import of the longest list has gone from the queue
\* through all its iterations to a SUCCESS record, and its worker has closed it.
C22_Witness ==
    \E j \in Jobs :
        /\ msgs[j].task = "items.bulk_import"
        /\ Len(msgs[j].args.items_data) = MaxItems
        /\ store[j].status = "SUCCESS"
        /\ j \notin queue
        /\ req["w1"][j].st = "none"

====
